---- MODULE Spec2Model ----
(***************************************************************************)
(* Model of the multi-stage pipeline execution engine,                     *)
(* surplus_agents/pipelines/orchestrator/pipeline.py                       *)
(* (PipelineStage, StageResult, PipelineOrchestrator) together with the    *)
(* AuditLogger of surplus_agents/core/audit/logger.py it calls.            *)
(*                                                                         *)
(* One PipelineOrchestrator instance is modelled: stages are registered,   *)
(* then execute() is called.  execute() is cut at                          *)
(* every handler invocation: the handler is foreign code, each invocation  *)
(* either returns a value or raises an Exception with some message.        *)
(* Wall-clock values (timestamps, duration_ms, the traceback text) are     *)
(* left out of the records; nothing in the control flow reads them.        *)
(* AuditLogger.log appends to an in-memory list and does not raise.        *)
(***************************************************************************)
EXTENDS Integers, Sequences, FiniteSets, TLC

(* ---- bounds of the model ---- *)
MaxStages == 2
MaxRetries == 2

\* the most calls of execute() made on one instance, one after another
MaxCalls == 2

(* ---- input domains ---- *)
StageNames == {"a", "b"}
RetryValues == (0 - 1)..MaxRetries
InitialData == {<<>>}

(* Python None for a data value and for the Optional[str] error *)
NoneData == <<0 - 1>>
NoneStr == "None"
PipelineName == "p"
Mode == "TEST"

VARIABLES
    stages,          \* self.stages
    stage_results,   \* self.stage_results
    audit_logger,    \* self.audit_logger is not None
    entries,         \* AuditLogger.entries
    artifact,        \* content of <artifact_dir>/<name>_result.json
    pc,              \* position of the caller / of execute()
    current_data,    \* execute: current_data
    idx,             \* execute: position of `stage` in self.stages
    attempts,        \* _execute_stage: attempts
    max_attempts,    \* _execute_stage: max_attempts
    last_error,      \* _execute_stage: last_error
    pipeline_result, \* the value execute() returned
    invocations,     \* history: handler invocations of the current execute()
    stage_inputs,    \* history: input_data of each _execute_stage call
    saves,           \* history: the documents passed to _save_result
    returned,        \* history: the values returned by execute(), in order
    other,           \* a second caller's execute() on the same instance
    twin,            \* a second instance with the same stages, run with
                     \* the handler outcomes of the first
    add_stage_calls  \* history: the arguments given to each add_stage call

vars == <<stages, stage_results, audit_logger, entries, artifact, pc,
          current_data, idx, attempts, max_attempts, last_error,
          pipeline_result, invocations, stage_inputs, saves, returned,
          other, twin, add_stage_calls>>

\* what a step of the first caller's execute() before its end leaves alone
rest == <<saves, returned, other, twin>>

(* ---- data types ---- *)

\* @dataclass PipelineStage; the handler is named by the position at which
\* it was registered (every add_stage call passes its own callable)
PipelineStage(name, handler, required, retry_on_error, max_retries) ==
    [name |-> name, handler |-> handler, required |-> required,
     retry_on_error |-> retry_on_error, max_retries |-> max_retries]

\* a StageResult that keeps a text in error whatever the status
StageResult_AlwaysError(stage_name, status, output, error) ==
    [stage_name |-> stage_name, status |-> status, output |-> output,
     error |-> IF error = NoneStr THEN "" ELSE error]

\* @dataclass StageResult (duration_ms, timestamp left out)
StageResult(stage_name, status, output, error) ==
    [stage_name |-> stage_name, status |-> status, output |-> output,
     error |-> error]

\* AuditLogger.log: the entry it appends
AuditEntry(action, object_type, object_id, result, details) ==
    [action |-> action, actor |-> PipelineName, object_type |-> object_type,
     object_id |-> object_id, result |-> result, details |-> details]

\* a stage handler returning: the output records the handler and its input
HandlerOutput(handler, data) == Append(data, handler)

\* a stage handler raising: str(e) names the attempt that failed, so that the
\* messages of successive failures of one stage differ
HandlerMessage(attempt) ==
    IF attempt = 1 THEN "E1" ELSE IF attempt = 2 THEN "E2"
    ELSE IF attempt = 3 THEN "E3" ELSE "E4"

\* the class of the exception a failing handler raises: ValueError as in
\* the unit tests, PermissionError as ModeComplianceChecker raises
HandlerException(handler) ==
    IF handler = 1 THEN "ValueError" ELSE "PermissionError"

\* the builtin classes derived from Exception that occur here
ExceptionClasses == {"Exception", "ValueError", "OSError", "PermissionError"}

\* str(e) of the exception a failing audit logger raises
AuditFailure == "audit log failed"

(* ---- pure parts of execute / _execute_stage ---- *)

\* line 243 written as `except ValueError`
Catches_ValueErrorOnly(class) == class = "ValueError"

\* line 243: `except Exception`
Catches(class) == class \in ExceptionClasses

\* line 214 with the retry policy's off-by-one dropped
MaxAttempts_NoFirstAttempt(stage) ==
    IF stage.retry_on_error THEN stage.max_retries ELSE 1

\* line 214 with one attempt too many
MaxAttempts_ExtraAttempt(stage) ==
    IF stage.retry_on_error THEN stage.max_retries + 2 ELSE 1

\* line 214 without the retry_on_error test
MaxAttempts_AlwaysRetry(stage) == stage.max_retries + 1

\* line 214
MaxAttempts(stage) ==
    IF stage.retry_on_error THEN stage.max_retries + 1 ELSE 1

\* lines 141-144 without the `if stage.required` test
StopsPipeline_AnyError(result, stage) == result.status = "error"

\* lines 141-144 without the break
StopsPipeline_Never(result, stage) == FALSE

\* lines 141-144: the loop breaks after this result
StopsPipeline(result, stage) ==
    result.status = "error" /\ stage.required

\* lines 141-148 with the assignment of line 148 outside the else
NextData_Always(result, data) == result.output

\* lines 141-148: current_data after a stage
NextData(result, data) ==
    IF result.status = "error" THEN data ELSE result.output

RECURSIVE CountStatus(_, _)
CountStatus(results, status) ==
    IF results = <<>> THEN 0
    ELSE (IF Head(results).status = status THEN 1 ELSE 0)
         + CountStatus(Tail(results), status)

Min(a, b) == IF a < b THEN a ELSE b

\* line 151 looking at the last result only
HasErrors_LastOnly(results) ==
    results # <<>> /\ results[Len(results)].status = "error"

\* line 151
HasErrors(results) ==
    \E i \in DOMAIN results : results[i].status = "error"

\* lines 152-155 with the required flag looked up by the result's stage
\* name (the last stage registered under that name) instead of by position
FailedRequired_ByName(results, stgs) ==
    \E i \in DOMAIN results :
        /\ results[i].status = "error"
        /\ \E j \in DOMAIN stgs :
              /\ stgs[j].name = results[i].stage_name
              /\ \A k \in DOMAIN stgs :
                    stgs[k].name = results[i].stage_name => k <= j
              /\ stgs[j].required

\* lines 152-155: zip pairs results and stages by position
FailedRequired(results, stgs) ==
    \E i \in 1..Min(Len(results), Len(stgs)) :
        results[i].status = "error" /\ stgs[i].required

\* lines 157-162 with has_errors deciding "error"
PipelineStatus_AnyError(results, stgs) ==
    IF HasErrors(results) THEN "error" ELSE "ok"

\* lines 157-162 without the elif branch
PipelineStatus_NoPartial(results, stgs) ==
    IF FailedRequired(results, stgs) THEN "error" ELSE "ok"

\* lines 157-162 with the has_errors branch tested first
PipelineStatus_PartialFirst(results, stgs) ==
    IF HasErrors(results) /\ \E i \in DOMAIN results :
           results[i].status = "error" /\ ~stgs[i].required
    THEN "partial"
    ELSE IF FailedRequired(results, stgs) THEN "error"
    ELSE "ok"

\* lines 157-162
PipelineStatus(results, stgs) ==
    IF FailedRequired(results, stgs) THEN "error"
    ELSE IF HasErrors(results) THEN "partial"
    ELSE "ok"

\* get_stage_results, lines 293-295
get_stage_results(results) == results

\* get_stage_result, lines 297-302, with the return None inside the loop: only
\* the first result is compared
get_stage_result_FirstOnly(results, stage_name) ==
    IF results # <<>> /\ Head(results).stage_name = stage_name
    THEN <<Head(results)>>
    ELSE <<>>

\* get_stage_result, lines 297-302, returning the last result of that name
RECURSIVE get_stage_result_Last(_, _)
get_stage_result_Last(results, stage_name) ==
    IF results = <<>> THEN <<>>
    ELSE IF results[Len(results)].stage_name = stage_name
         THEN <<results[Len(results)]>>
         ELSE get_stage_result_Last(SubSeq(results, 1, Len(results) - 1),
                                    stage_name)

\* get_stage_result, lines 297-302: the loop returns the first result whose
\* stage_name matches; the Optional it returns is a sequence, <<>> for None
RECURSIVE get_stage_result(_, _)
get_stage_result(results, stage_name) ==
    IF results = <<>> THEN <<>>
    ELSE IF Head(results).stage_name = stage_name THEN <<Head(results)>>
    ELSE get_stage_result(Tail(results), stage_name)

\* lines 173-180 with total_stages counting the executed stages
Metadata_TotalExecuted(results, stgs) ==
    [total_stages |-> Len(results),
     successful_stages |-> CountStatus(results, "ok"),
     failed_stages |-> CountStatus(results, "error")]

\* lines 173-180 (start_time, end_time, duration_ms left out)
Metadata(results, stgs) ==
    [total_stages |-> Len(stgs),
     successful_stages |-> CountStatus(results, "ok"),
     failed_stages |-> CountStatus(results, "error")]

\* lines 167-181 with an entry of status skipped for every stage that was
\* not attempted
PipelineResult_MarksSkipped(results, stgs, data) ==
    [pipeline |-> PipelineName,
     status |-> PipelineStatus(results, stgs),
     mode |-> Mode,
     output |-> data,
     stages |-> [i \in 1..Len(stgs) |->
                   IF i <= Len(results) THEN results[i]
                   ELSE StageResult(stgs[i].name, "skipped", NoneData,
                                    NoneStr)],
     metadata |-> Metadata(results, stgs)]

\* lines 167-181
PipelineResult(results, stgs, data) ==
    [pipeline |-> PipelineName,
     status |-> PipelineStatus(results, stgs),
     mode |-> Mode,
     output |-> data,
     stages |-> results,
     metadata |-> Metadata(results, stgs)]

\* line 222 passing None on a retry instead of input_data
HandlerArgument_LostOnRetry(input_data, attempt) ==
    IF attempt = 1 THEN input_data ELSE NoneData

\* line 222: the argument of the handler call of an attempt
HandlerArgument(input_data, attempt) == input_data

\* line 123 keeping the list of the previous run
ResetResults_Keep(results) == results

\* line 123: self.stage_results = []
ResetResults(results) == <<>>

\* line 184 calling _save_result twice
SaveCalls_Twice(calls, result) == Append(Append(calls, result), result)

\* line 184: the one call of _save_result per execute()
SaveCalls(calls, result) == Append(calls, result)

\* lines 290-291 opening the file in append mode
WriteArtifact_Append(file, result) == file \o <<result>>

\* lines 285-291: the file is opened with 'w' and holds the one document
WriteArtifact(file, result) == <<result>>

\* a second instance before its execute() is called
TwinIdle ==
    [audit_logger |-> FALSE, mode |-> Mode, pc |-> "idle",
     initial_data |-> NoneData, stage_results |-> <<>>, entries |-> <<>>,
     current_data |-> NoneData, idx |-> 0, attempts |-> 0,
     max_attempts |-> 0, used |-> 0, result |-> <<>>]

\* the locals of a caller that is not inside execute()
OtherIdle ==
    [pc |-> "idle", current_data |-> NoneData, idx |-> 0, attempts |-> 0,
     max_attempts |-> 0, result |-> <<>>, attempted |-> 0]

\* line 232 reporting the retries made instead of the attempts
OkDetails_Retries(n) == [attempts |-> n - 1]

\* line 232: details of the stage_execute event of a success
OkDetails(n) == [attempts |-> n]

\* lines 260-265 carrying the message of the first failed attempt
ErrorDetails_FirstMessage(message, n) ==
    [error |-> HandlerMessage(1), attempts |-> n]

\* lines 260-265: details of the stage_execute event of the final failure
ErrorDetails(message, n) == [error |-> message, attempts |-> n]

\* the log call made without the `if self.audit_logger:` guard
Log_Unguarded(log, entry) == Append(log, entry)

\* a logger that is handed the stage events only
Log_StageOnly(log, entry) ==
    IF audit_logger /\ entry.object_type = "stage" THEN Append(log, entry)
    ELSE log

\* self.audit_logger.log(...) guarded by `if self.audit_logger:`
Log(log, entry) == IF audit_logger THEN Append(log, entry) ELSE log

(* ---- the state after construction (__init__, lines 75-80) ---- *)
Init ==
    /\ stages = <<>>
    /\ stage_results = <<>>
    /\ audit_logger \in BOOLEAN
    /\ entries = <<>>
    /\ artifact = <<>>
    /\ pc = "idle"
    /\ current_data = NoneData
    /\ idx = 0
    /\ attempts = 0
    /\ max_attempts = 0
    /\ last_error = NoneStr
    /\ pipeline_result = <<>>
    /\ invocations = <<>>
    /\ stage_inputs = <<>>
    /\ saves = <<>>
    /\ returned = <<>>
    /\ other = OtherIdle
    /\ twin = TwinIdle
    /\ add_stage_calls = <<>>

\* add_stage, lines 82-110
AddStage(name, required, retry_on_error, max_retries) ==
    /\ pc = "idle"
    /\ Len(stages) < MaxStages
    /\ stages' = Append(stages,
          PipelineStage(name, Len(stages) + 1, required, retry_on_error,
                        max_retries))
    /\ add_stage_calls' = Append(add_stage_calls,
          [name |-> name, required |-> required,
           retry_on_error |-> retry_on_error, max_retries |-> max_retries])
    /\ UNCHANGED <<stage_results, audit_logger, entries, artifact, pc,
                   current_data, idx, attempts, max_attempts, last_error,
                   pipeline_result, invocations, stage_inputs, rest>>

\* execute, lines 122-134, with line 123 clearing self.stages as well
Start_ClearsStages(initial_data) ==
    /\ stage_results' = ResetResults(stage_results)
    /\ stages' = <<>>
    /\ current_data' = initial_data
    /\ entries' = Log(entries,
          AuditEntry("pipeline_start", "pipeline", PipelineName, "ok",
                     [stage_count |-> Len(stages)]))
    /\ invocations' = <<>>
    /\ stage_inputs' = <<>>
    /\ idx' = 0
    /\ pc' = "for"
    /\ UNCHANGED <<audit_logger, artifact, attempts, max_attempts,
                   last_error, pipeline_result, rest,
                   add_stage_calls>>

\* execute, lines 122-134: up to the for loop
Start(initial_data) ==
    /\ stage_results' = ResetResults(stage_results)
    /\ current_data' = initial_data
    /\ entries' = Log(entries,
          AuditEntry("pipeline_start", "pipeline", PipelineName, "ok",
                     [stage_count |-> Len(stages)]))
    /\ invocations' = <<>>
    /\ stage_inputs' = <<>>
    /\ idx' = 0
    /\ pc' = "for"
    /\ UNCHANGED <<stages, audit_logger, artifact, attempts, max_attempts,
                   last_error, pipeline_result, rest,
                   add_stage_calls>>

\* execute called on the instance after registration
Execute(initial_data) ==
    /\ pc = "idle"
    /\ Start(initial_data)

\* line 137, the call of line 138 and _execute_stage lines 211-216: take the
\* next stage, or leave the loop when the list is exhausted
NextStage ==
    /\ pc = "for"
    /\ IF idx < Len(stages)
       THEN /\ idx' = idx + 1
            /\ attempts' = 0
            /\ max_attempts' = MaxAttempts(stages[idx + 1])
            /\ last_error' = NoneStr
            /\ stage_inputs' = Append(stage_inputs, current_data)
            /\ pc' = "while"
       ELSE /\ pc' = "finish"
            /\ UNCHANGED <<idx, attempts, max_attempts, last_error,
                           stage_inputs>>
    /\ UNCHANGED <<stages, stage_results, audit_logger, entries, artifact,
                   current_data, pipeline_result, invocations, rest,
                   add_stage_calls>>

\* execute lines 139-148 with the result put at the head of the list
Record_Prepend(result) ==
    /\ stage_results' = <<result>> \o stage_results
    /\ current_data' = NextData(result, current_data)
    /\ pc' = IF StopsPipeline(result, stages[idx]) THEN "finish" ELSE "for"

\* execute lines 139-148 applied to the StageResult of stages[idx]
Record(result) ==
    /\ stage_results' = Append(stage_results, result)
    /\ current_data' = NextData(result, current_data)
    /\ pc' = IF StopsPipeline(result, stages[idx]) THEN "finish" ELSE "for"

\* lines 218-241: an attempt whose handler call returns
AttemptOk ==
    /\ pc = "while"
    /\ attempts < max_attempts
    /\ LET stage == stages[idx]
           argument == HandlerArgument(current_data, attempts + 1)
           output == HandlerOutput(stage.handler, argument)
       IN  /\ attempts' = attempts + 1
           /\ invocations' = Append(invocations,
                 [stage |-> idx, input |-> argument, ok |-> TRUE,
                  value |-> output, message |-> NoneStr])
           /\ entries' = Log(entries,
                 AuditEntry("stage_execute", "stage", stage.name, "ok",
                            OkDetails(attempts + 1)))
           /\ Record(StageResult(stage.name, "ok", output, NoneStr))
    /\ UNCHANGED <<stages, audit_logger, artifact, idx, max_attempts,
                   last_error, pipeline_result, stage_inputs, rest,
                   add_stage_calls>>

\* lines 218-222, 243-275: an attempt whose handler call raises
AttemptFail ==
    /\ pc = "while"
    /\ attempts < max_attempts
    /\ LET stage == stages[idx]
           argument == HandlerArgument(current_data, attempts + 1)
           message == HandlerMessage(attempts + 1)
       IN  /\ attempts' = attempts + 1
           /\ last_error' = message
           /\ invocations' = Append(invocations,
                 [stage |-> idx, input |-> argument, ok |-> FALSE,
                  value |-> NoneData, message |-> message])
           /\ IF ~Catches(HandlerException(stage.handler))
              THEN /\ pc' = "raised"
                   /\ UNCHANGED <<entries, stage_results, current_data>>
              ELSE IF attempts + 1 < max_attempts
              THEN UNCHANGED <<entries, stage_results, current_data, pc>>
              ELSE /\ entries' = Log(entries,
                         AuditEntry("stage_execute", "stage", stage.name,
                                    "error",
                                    ErrorDetails(message, attempts + 1)))
                   /\ Record(StageResult(stage.name, "error", NoneData,
                                         message))
    /\ UNCHANGED <<stages, audit_logger, artifact, idx, max_attempts,
                   pipeline_result, stage_inputs, rest,
                   add_stage_calls>>

\* lines 218, 277-283: the while loop ends without a return
FallThrough ==
    /\ pc = "while"
    /\ ~(attempts < max_attempts)
    /\ Record(StageResult(stages[idx].name, "error", NoneData,
                          "Unknown error"))
    /\ UNCHANGED <<stages, audit_logger, entries, artifact, idx, attempts,
                   max_attempts, last_error, pipeline_result, invocations,
                   stage_inputs, rest,
                   add_stage_calls>>

\* lines 150-196: status, result document, _save_result, pipeline_complete,
\* return
Finish ==
    /\ pc = "finish"
    /\ LET result == PipelineResult(stage_results, stages, current_data)
       IN  /\ pipeline_result' = result
           /\ returned' = Append(returned, result)
           /\ saves' = SaveCalls(saves, result)
           /\ artifact' = WriteArtifact(artifact, result)
           /\ entries' = Log(entries,
                 AuditEntry("pipeline_complete", "pipeline", PipelineName,
                            result.status, result.metadata))
    /\ pc' = "returned"
    /\ UNCHANGED <<stages, stage_results, audit_logger, current_data, idx,
                   attempts, max_attempts, last_error, invocations,
                   stage_inputs, other, twin,
                   add_stage_calls>>

Next ==
    \/ \E name \in StageNames, required \in BOOLEAN,
          retry_on_error \in BOOLEAN, max_retries \in RetryValues :
          AddStage(name, required, retry_on_error, max_retries)
    \/ \E initial_data \in InitialData : Execute(initial_data)
    \/ NextStage
    \/ AttemptOk
    \/ AttemptFail
    \/ FallThrough
    \/ Finish

Spec == Init /\ [][Next]_vars

(***************************************************************************)
(* The collaborators failing: an audit logger whose log() raises an        *)
(* Exception, and _save_result raising (mkdir, open or json.dump).         *)
(***************************************************************************)

\* lines 122-134 with the pipeline_start log call raising: nothing catches it
StartLogRaises(initial_data) ==
    /\ pc = "idle"
    /\ audit_logger
    /\ stage_results' = ResetResults(stage_results)
    /\ current_data' = initial_data
    /\ invocations' = <<>>
    /\ stage_inputs' = <<>>
    /\ idx' = 0
    /\ pc' = "raised"
    /\ UNCHANGED <<stages, audit_logger, entries, artifact, attempts,
                   max_attempts, last_error, pipeline_result, rest,
                   add_stage_calls>>

\* lines 218-275: the handler returns and the log call of line 226, inside
\* the try block, raises: line 243 catches it as if the handler had failed.
\* On the last attempt the log call of line 254 follows; it returns or
\* raises again, and then nothing catches it.
AttemptOkLogRaises(again) ==
    /\ pc = "while"
    /\ audit_logger
    /\ attempts < max_attempts
    /\ LET stage == stages[idx]
           argument == HandlerArgument(current_data, attempts + 1)
           output == HandlerOutput(stage.handler, argument)
       IN  /\ attempts' = attempts + 1
           /\ last_error' = AuditFailure
           /\ invocations' = Append(invocations,
                 [stage |-> idx, input |-> argument, ok |-> TRUE,
                  value |-> output, message |-> NoneStr])
           /\ IF attempts + 1 < max_attempts
              THEN /\ ~again
                   /\ UNCHANGED <<entries, stage_results, current_data, pc>>
              ELSE IF again
              THEN /\ pc' = "raised"
                   /\ UNCHANGED <<entries, stage_results, current_data>>
              ELSE /\ entries' = Log(entries,
                         AuditEntry("stage_execute", "stage", stage.name,
                                    "error",
                                    ErrorDetails(AuditFailure, attempts + 1)))
                   /\ Record(StageResult(stage.name, "error", NoneData,
                                         AuditFailure))
    /\ UNCHANGED <<stages, audit_logger, artifact, idx, max_attempts,
                   pipeline_result, stage_inputs, rest,
                   add_stage_calls>>

\* lines 218-266: the handler fails on the last attempt and the log call of
\* line 254, inside the except block, raises
AttemptFailLogRaises ==
    /\ pc = "while"
    /\ audit_logger
    /\ attempts < max_attempts
    /\ ~(attempts + 1 < max_attempts)
    /\ Catches(HandlerException(stages[idx].handler))
    /\ LET argument == HandlerArgument(current_data, attempts + 1)
           message == HandlerMessage(attempts + 1)
       IN  /\ attempts' = attempts + 1
           /\ last_error' = message
           /\ invocations' = Append(invocations,
                 [stage |-> idx, input |-> argument, ok |-> FALSE,
                  value |-> NoneData, message |-> message])
    /\ pc' = "raised"
    /\ UNCHANGED <<stages, stage_results, audit_logger, entries, artifact,
                   current_data, idx, max_attempts, pipeline_result,
                   stage_inputs, rest,
                   add_stage_calls>>

\* lines 150-184 with _save_result raising: before the file is opened
\* (mkdir, open) or while json.dump writes into the truncated file
SaveRaises(truncated) ==
    /\ pc = "finish"
    /\ saves' = SaveCalls(saves,
                          PipelineResult(stage_results, stages, current_data))
    /\ artifact' = IF truncated THEN <<>> ELSE artifact
    /\ pc' = "raised"
    /\ UNCHANGED <<stages, stage_results, audit_logger, entries,
                   current_data, idx, attempts, max_attempts, last_error,
                   pipeline_result, invocations, stage_inputs, returned,
                   other, twin, add_stage_calls>>

\* the pipeline_complete log call made, and raising, before the save
CompleteLogRaises_BeforeSave ==
    /\ pc = "finish"
    /\ audit_logger
    /\ pc' = "raised"
    /\ UNCHANGED <<stages, stage_results, audit_logger, entries, artifact,
                   current_data, idx, attempts, max_attempts, last_error,
                   pipeline_result, invocations, stage_inputs, saves,
                   returned, other, twin, add_stage_calls>>

\* lines 150-194 with the pipeline_complete log call raising after the save
CompleteLogRaises ==
    /\ pc = "finish"
    /\ audit_logger
    /\ LET result == PipelineResult(stage_results, stages, current_data)
       IN  /\ saves' = SaveCalls(saves, result)
           /\ artifact' = WriteArtifact(artifact, result)
    /\ pc' = "raised"
    /\ UNCHANGED <<stages, stage_results, audit_logger, entries,
                   current_data, idx, attempts, max_attempts, last_error,
                   pipeline_result, invocations, stage_inputs, returned,
                   other, twin, add_stage_calls>>

NextInfra ==
    \/ Next
    \/ \E initial_data \in InitialData : StartLogRaises(initial_data)
    \/ \E again \in BOOLEAN : AttemptOkLogRaises(again)
    \/ AttemptFailLogRaises
    \/ \E truncated \in BOOLEAN : SaveRaises(truncated)
    \/ CompleteLogRaises

SpecInfra == Init /\ [][NextInfra]_vars

(***************************************************************************)
(* A second caller running execute() on the same instance while the first  *)
(* call is under way.  Its local variables are the fields of `other`; the  *)
(* instance fields (self.stage_results, the audit log, the result file)    *)
(* are the ones the first caller uses.  Each step is one handler           *)
(* invocation with the statements that follow it.                          *)
(***************************************************************************)

UnchangedByOther ==
    UNCHANGED <<stages, audit_logger, pc, current_data, idx, attempts,
                max_attempts, last_error, pipeline_result, invocations,
                stage_inputs, returned, twin, add_stage_calls>>

\* lines 122-134 in the second caller, once registration is over
OtherExecute(initial_data) ==
    /\ pc # "idle"
    /\ other.pc = "idle"
    /\ stage_results' = ResetResults(stage_results)
    /\ entries' = Log(entries,
          AuditEntry("pipeline_start", "pipeline", PipelineName, "ok",
                     [stage_count |-> Len(stages)]))
    /\ other' = [other EXCEPT !.pc = "for", !.current_data = initial_data,
                              !.idx = 0, !.attempted = 0]
    /\ UNCHANGED <<artifact, saves>>
    /\ UnchangedByOther

\* lines 137-138 and 211-216 in the second caller
OtherNextStage ==
    /\ other.pc = "for"
    /\ other' = IF other.idx < Len(stages)
                THEN [other EXCEPT !.idx = other.idx + 1, !.attempts = 0,
                         !.max_attempts = MaxAttempts(stages[other.idx + 1]),
                         !.attempted = other.attempted + 1, !.pc = "while"]
                ELSE [other EXCEPT !.pc = "finish"]
    /\ UNCHANGED <<stage_results, entries, artifact, saves>>
    /\ UnchangedByOther

\* lines 139-148 in the second caller: the append goes to the list that
\* self.stage_results names at that moment
OtherRecord(result, n) ==
    /\ stage_results' = Append(stage_results, result)
    /\ other' = [other EXCEPT
          !.attempts = n,
          !.current_data = NextData(result, other.current_data),
          !.pc = IF StopsPipeline(result, stages[other.idx])
                 THEN "finish" ELSE "for"]

\* lines 218-275 in the second caller: one attempt, returning or raising
OtherAttempt(ok) ==
    /\ other.pc = "while"
    /\ other.attempts < other.max_attempts
    /\ LET stage == stages[other.idx]
           n == other.attempts + 1
           argument == HandlerArgument(other.current_data, n)
           output == HandlerOutput(stage.handler, argument)
           message == HandlerMessage(n)
       IN  IF ok
           THEN /\ entries' = Log(entries,
                      AuditEntry("stage_execute", "stage", stage.name, "ok",
                                 OkDetails(n)))
                /\ OtherRecord(StageResult(stage.name, "ok", output,
                                           NoneStr), n)
           ELSE IF n < other.max_attempts
           THEN /\ other' = [other EXCEPT !.attempts = n]
                /\ UNCHANGED <<entries, stage_results>>
           ELSE /\ entries' = Log(entries,
                      AuditEntry("stage_execute", "stage", stage.name,
                                 "error", ErrorDetails(message, n)))
                /\ OtherRecord(StageResult(stage.name, "error", NoneData,
                                           message), n)
    /\ UNCHANGED <<artifact, saves>>
    /\ UnchangedByOther

\* lines 218, 277-283 in the second caller
OtherFallThrough ==
    /\ other.pc = "while"
    /\ ~(other.attempts < other.max_attempts)
    /\ OtherRecord(StageResult(stages[other.idx].name, "error", NoneData,
                               "Unknown error"), other.attempts)
    /\ UNCHANGED <<entries, artifact, saves>>
    /\ UnchangedByOther

\* lines 150-196 in the second caller
OtherFinish ==
    /\ other.pc = "finish"
    /\ LET result == PipelineResult(stage_results, stages,
                                    other.current_data)
       IN  /\ other' = [other EXCEPT !.result = result, !.pc = "returned"]
           /\ saves' = SaveCalls(saves, result)
           /\ artifact' = WriteArtifact(artifact, result)
           /\ entries' = Log(entries,
                 AuditEntry("pipeline_complete", "pipeline", PipelineName,
                            result.status, result.metadata))
    /\ UNCHANGED stage_results
    /\ UnchangedByOther

NextConc ==
    \/ Next
    \/ \E initial_data \in InitialData : OtherExecute(initial_data)
    \/ OtherNextStage
    \/ \E ok \in BOOLEAN : OtherAttempt(ok)
    \/ OtherFallThrough
    \/ OtherFinish

\* the instance is constructed with the default audit_logger=None
InitConc == Init /\ ~audit_logger

SpecConc == InitConc /\ [][NextConc]_vars

(***************************************************************************)
(* execute() called again on the same instance after it has returned.      *)
(***************************************************************************)

\* execute, lines 122-134, entered on an instance that has run before
Reexecute(initial_data) ==
    /\ pc = "returned"
    /\ Len(returned) < MaxCalls
    /\ Start(initial_data)

NextRepeat ==
    \/ Next
    \/ \E initial_data \in InitialData : Reexecute(initial_data)

SpecRepeat == Init /\ [][NextRepeat]_vars

(***************************************************************************)
(* A second instance, constructed with its own audit_logger and mode and   *)
(* given the same stages, whose execute() meets the handler outcomes of    *)
(* the first instance's latest run in the same order: the k-th handler     *)
(* invocation of the twin returns or raises as the k-th invocation         *)
(* recorded in `invocations` did.                                          *)
(***************************************************************************)

\* the modes an instance is constructed with (__init__ stores any string)
Modes == {"TEST", "LIVE"}

\* the document carrying a fixed mode whatever the instance was given
WithMode_Ignored(result, mode) == result

\* line 170: "mode": self.mode, in the document of an instance
WithMode(result, mode) == [result EXCEPT !.mode = mode]

\* self.audit_logger.log(...) guarded by `if self.audit_logger:`, twin
TwinLog(log, entry) == IF twin.audit_logger THEN Append(log, entry) ELSE log

TwinUnchanged ==
    UNCHANGED <<stages, stage_results, audit_logger, entries, artifact, pc,
                current_data, idx, attempts, max_attempts, last_error,
                pipeline_result, invocations, stage_inputs, saves, returned,
                other, add_stage_calls>>

\* __init__ (lines 75-80) and execute lines 122-134 of the twin
TwinExecute(initial_data, logger, mode) ==
    /\ pc = "returned"
    /\ twin.pc = "idle"
    /\ twin' = [TwinIdle EXCEPT
          !.audit_logger = logger, !.mode = mode, !.pc = "for",
          !.initial_data = initial_data, !.current_data = initial_data,
          !.stage_results = ResetResults(twin.stage_results),
          !.entries = IF logger
                      THEN <<AuditEntry("pipeline_start", "pipeline",
                                        PipelineName, "ok",
                                        [stage_count |-> Len(stages)])>>
                      ELSE <<>>]
    /\ TwinUnchanged

\* lines 137-138 and 211-216 of the twin
TwinNextStage ==
    /\ twin.pc = "for"
    /\ twin' = IF twin.idx < Len(stages)
               THEN [twin EXCEPT !.idx = twin.idx + 1, !.attempts = 0,
                        !.max_attempts = MaxAttempts(stages[twin.idx + 1]),
                        !.pc = "while"]
               ELSE [twin EXCEPT !.pc = "finish"]
    /\ TwinUnchanged

\* lines 139-148 of the twin
TwinRecord(after, result) ==
    [after EXCEPT
        !.stage_results = Append(twin.stage_results, result),
        !.current_data = NextData(result, twin.current_data),
        !.pc = IF StopsPipeline(result, stages[twin.idx])
               THEN "finish" ELSE "for"]

\* lines 218-275 of the twin: one attempt, with the outcome the first
\* instance's run had at the same place in the sequence of invocations
TwinAttempt ==
    /\ twin.pc = "while"
    /\ twin.attempts < twin.max_attempts
    /\ twin.used < Len(invocations)
    /\ LET stage == stages[twin.idx]
           n == twin.attempts + 1
           argument == HandlerArgument(twin.current_data, n)
           output == HandlerOutput(stage.handler, argument)
           message == HandlerMessage(n)
           after == [twin EXCEPT !.attempts = n, !.used = twin.used + 1]
       IN  twin' =
             IF invocations[twin.used + 1].ok
             THEN TwinRecord(
                    [after EXCEPT !.entries = TwinLog(twin.entries,
                        AuditEntry("stage_execute", "stage", stage.name,
                                   "ok", OkDetails(n)))],
                    StageResult(stage.name, "ok", output, NoneStr))
             ELSE IF ~Catches(HandlerException(stage.handler))
             THEN [after EXCEPT !.pc = "raised"]
             ELSE IF n < twin.max_attempts
             THEN after
             ELSE TwinRecord(
                    [after EXCEPT !.entries = TwinLog(twin.entries,
                        AuditEntry("stage_execute", "stage", stage.name,
                                   "error", ErrorDetails(message, n)))],
                    StageResult(stage.name, "error", NoneData, message))
    /\ TwinUnchanged

\* lines 218, 277-283 of the twin
TwinFallThrough ==
    /\ twin.pc = "while"
    /\ ~(twin.attempts < twin.max_attempts)
    /\ twin' = TwinRecord(twin,
          StageResult(stages[twin.idx].name, "error", NoneData,
                      "Unknown error"))
    /\ TwinUnchanged

\* lines 150-196 of the twin
TwinFinish ==
    /\ twin.pc = "finish"
    /\ LET result == WithMode(PipelineResult(twin.stage_results, stages,
                                             twin.current_data), twin.mode)
       IN  twin' = [twin EXCEPT
             !.result = result,
             !.entries = TwinLog(twin.entries,
                 AuditEntry("pipeline_complete", "pipeline", PipelineName,
                            result.status, result.metadata)),
             !.pc = "returned"]
    /\ TwinUnchanged

\* the first instance is run again before the twin is constructed
TwinReexecute(initial_data) ==
    /\ twin.pc = "idle"
    /\ Reexecute(initial_data)

NextTwin ==
    \/ Next
    \/ \E initial_data \in InitialData : TwinReexecute(initial_data)
    \/ \E initial_data \in InitialData, logger \in BOOLEAN, mode \in Modes :
          TwinExecute(initial_data, logger, mode)
    \/ TwinNextStage
    \/ TwinAttempt
    \/ TwinFallThrough
    \/ TwinFinish

SpecTwin == Init /\ [][NextTwin]_vars

(***************************************************************************)
(* A handler invocation that never returns.                                *)
(***************************************************************************)

\* what is recorded as the message of an invocation that does not return
NoReturn == "never returns"

\* line 222 abandoned after a time limit, the loop going on to the next
\* stage
AfterHang_TimedOut == "for"

\* line 222 is a plain synchronous call: the caller stays in it
AfterHang == "hung"

\* lines 218-222 with a handler call that does not return
AttemptHangs ==
    /\ pc = "while"
    /\ attempts < max_attempts
    /\ attempts' = attempts + 1
    /\ invocations' = Append(invocations,
          [stage |-> idx,
           input |-> HandlerArgument(current_data, attempts + 1),
           ok |-> FALSE, value |-> NoneData, message |-> NoReturn])
    /\ pc' = AfterHang
    /\ UNCHANGED <<stages, stage_results, audit_logger, entries, artifact,
                   current_data, idx, max_attempts, last_error,
                   pipeline_result, stage_inputs, rest, add_stage_calls>>

NextHang ==
    \/ Next
    \/ AttemptHangs

SpecHang == Init /\ [][NextHang]_vars

(***************************************************************************)
(* add_stage called with some of its keyword arguments left out.           *)
(***************************************************************************)

\* the defaults of add_stage, lines 87-89
DefaultRequired == TRUE
DefaultRetryOnError == FALSE
DefaultMaxRetries == 3

OptionalKeys == {"required", "retry_on_error", "max_retries"}

\* the calls of add_stage: a name (and a handler) with any of the optional
\* keyword arguments given; a call is the record of the arguments given
AddStageCalls ==
    LET full == [name : StageNames, required : BOOLEAN,
                 retry_on_error : BOOLEAN, max_retries : RetryValues]
    IN  {[k \in keys \cup {"name"} |-> call[k]] :
            call \in full, keys \in SUBSET OptionalKeys}

\* a parameter bound to its default whatever the call gives
Argument_AlwaysDefault(call, key, default) == default

\* the binding of a keyword parameter: the value given, else the default
Argument(call, key, default) ==
    IF key \in DOMAIN call THEN call[key] ELSE default

\* add_stage, lines 82-110, called with the arguments of `call`
AddStageWith(call) ==
    /\ pc = "idle"
    /\ Len(stages) < MaxStages
    /\ stages' = Append(stages,
          PipelineStage(call.name, Len(stages) + 1,
                        Argument(call, "required", DefaultRequired),
                        Argument(call, "retry_on_error", DefaultRetryOnError),
                        Argument(call, "max_retries", DefaultMaxRetries)))
    /\ add_stage_calls' = Append(add_stage_calls, call)
    /\ UNCHANGED <<stage_results, audit_logger, entries, artifact, pc,
                   current_data, idx, attempts, max_attempts, last_error,
                   pipeline_result, invocations, stage_inputs, rest>>

NextRegister ==
    \/ Next
    \/ \E call \in AddStageCalls : AddStageWith(call)

SpecRegister == Init /\ [][NextRegister]_vars

(***************************************************************************)
(* add_stage called with max_retries further below zero: max_retries is an *)
(* int that add_stage stores as given.                                     *)
(***************************************************************************)

\* values of max_retries below those of RetryValues
LowRetryValues == {0 - 2}

\* add_stage, lines 82-110, with retry_on_error=True and such a value
AddStageLow(name, required, max_retries) ==
    AddStage(name, required, TRUE, max_retries)

NextLow ==
    \/ Next
    \/ \E name \in StageNames, required \in BOOLEAN,
          max_retries \in LowRetryValues :
          AddStageLow(name, required, max_retries)

SpecLow == Init /\ [][NextLow]_vars

(***************************************************************************)
(* Properties                                                              *)
(***************************************************************************)

\* execute() has returned pipeline_result
Returned == pc = "returned"

\* the handler invocations made for the stage at position i, in order
InvocationsOf(i) == SelectSeq(invocations, LAMBDA v : v.stage = i)

\* the stage at position i was executed and ended in error
EndedInError(results, i) == i \in DOMAIN results /\ results[i].status = "error"

\* some executed stage is registered as required and ended in error
RequiredFailure(results) ==
    \E i \in DOMAIN results : stages[i].required /\ EndedInError(results, i)

\* some executed stage is registered as optional and ended in error
OptionalFailure(results) ==
    \E i \in DOMAIN results : ~stages[i].required /\ EndedInError(results, i)

\* C1: the result returned by execute() has status "error" if and only if
\* some executed stage is registered as required and its StageResult (the
\* entry at the stage's position, carrying the stage's name) ended in error.
C1_ErrorIffRequiredFailed ==
    Returned =>
        /\ \A i \in DOMAIN pipeline_result.stages :
              /\ i \in DOMAIN stages
              /\ pipeline_result.stages[i].stage_name = stages[i].name
        /\ (pipeline_result.status = "error"
              <=> RequiredFailure(pipeline_result.stages))

C1_Witness ==
    /\ Returned
    /\ Len(pipeline_result.stages) = 2
    /\ pipeline_result.status = "error"
    /\ OptionalFailure(pipeline_result.stages)

\* C2: a returned result has at most as many stage results as there are
\* registered stages; it has exactly as many unless a required stage ended in
\* error, and then the failing stage's result is the last entry.
C2_LengthAndTruncation ==
    Returned =>
        LET results == pipeline_result.stages
        IN  /\ Len(results) <= Len(stages)
            /\ ~RequiredFailure(results) => Len(results) = Len(stages)
            /\ \A i \in DOMAIN results :
                  stages[i].required /\ EndedInError(results, i)
                     => i = Len(results)

C2_Witness ==
    /\ Returned
    /\ Len(pipeline_result.stages) < Len(stages)
    /\ RequiredFailure(pipeline_result.stages)

\* C3: from the moment a required stage has ended in error, no handler is
\* invoked any more in this execute() call and no stage result is added; no
\* stage registered after the failing one has been invoked or has an entry.
C3_RequiredFailureStopsAll ==
    [][RequiredFailure(stage_results) =>
          /\ invocations' = invocations
          /\ stage_results' = stage_results
          /\ \A i \in DOMAIN stage_results :
                stages[i].required /\ EndedInError(stage_results, i) =>
                   /\ Len(stage_results) = i
                   /\ \A k \in DOMAIN invocations : invocations[k].stage <= i
      ]_vars

C3_Witness ==
    /\ Returned
    /\ RequiredFailure(stage_results)
    /\ Len(stage_results) < Len(stages)
    /\ invocations # <<>>

\* C4: a stage that ends in error contributes no output: the running data
\* value after it is the value it was given, the next stage is given that
\* same value, and every handler invocation of the next stage receives it.
C4_FailedStageKeepsData ==
    \A i \in DOMAIN stage_results :
        EndedInError(stage_results, i) =>
           /\ Len(stage_results) = i => current_data = stage_inputs[i]
           /\ (i + 1) \in DOMAIN stage_inputs =>
                 stage_inputs[i + 1] = stage_inputs[i]
           /\ \A k \in DOMAIN invocations :
                 invocations[k].stage = i + 1 =>
                    invocations[k].input = stage_inputs[i]

C4_Witness ==
    \E i \in DOMAIN stage_results :
        /\ EndedInError(stage_results, i)
        /\ ~stages[i].required
        /\ InvocationsOf(i) # <<>>
        /\ InvocationsOf(i + 1) # <<>>

\* C5: the returned status is "partial" if and only if no executed required
\* stage ended in error and some executed optional stage ended in error.
C5_PartialIffOnlyOptionalFailed ==
    Returned =>
        (pipeline_result.status = "partial"
           <=> /\ ~RequiredFailure(pipeline_result.stages)
               /\ OptionalFailure(pipeline_result.stages))

C5_Witness ==
    /\ Returned
    /\ pipeline_result.status = "partial"
    /\ Len(pipeline_result.stages) = 2
    /\ pipeline_result.stages[2].status = "ok"

\* C6: the returned status is "ok" if and only if every executed stage ended
\* ok; a pipeline without stages executes none and returns "ok".
C6_OkIffAllOk ==
    Returned =>
        /\ (pipeline_result.status = "ok"
              <=> \A i \in DOMAIN pipeline_result.stages :
                     pipeline_result.stages[i].status = "ok")
        /\ stages = <<>> =>
              pipeline_result.status = "ok" /\ pipeline_result.stages = <<>>

C6_Witness ==
    /\ Returned
    /\ pipeline_result.status = "ok"
    /\ Len(pipeline_result.stages) = 2

\* the number of failed invocations in a sequence of handler invocations
RECURSIVE Failures(_)
Failures(inv) ==
    IF inv = <<>> THEN 0
    ELSE (IF Head(inv).ok THEN 0 ELSE 1) + Failures(Tail(inv))

\* the stage at position i has ended: its StageResult is recorded
Concluded(i) == i \in DOMAIN stage_results

\* C7: for a stage with retry enabled, a handler that fails k <= max_retries
\* times and then returns makes the stage end ok at invocation k + 1 with the
\* returned value as output: no invocation follows a success, a success
\* concludes the stage with status ok and that output, and a stage that has
\* seen at most max_retries failures never concludes in error.
C7_RetryUntilSuccess ==
    \A i \in DOMAIN stage_inputs :
        stages[i].retry_on_error =>
           LET inv == InvocationsOf(i)
               n == Len(inv)
           IN  /\ \A j \in 1..(n - 1) : ~inv[j].ok
               /\ (n > 0 /\ inv[n].ok) =>
                     /\ Failures(inv) = n - 1
                     /\ n - 1 <= stages[i].max_retries
                     /\ Concluded(i)
                     /\ stage_results[i].status = "ok"
                     /\ stage_results[i].output = inv[n].value
               /\ (Concluded(i) /\ Failures(inv) <= stages[i].max_retries) =>
                     stage_results[i].status = "ok"

C7_Witness ==
    \E i \in DOMAIN stage_results :
        /\ stages[i].retry_on_error
        /\ stage_results[i].status = "ok"
        /\ Len(InvocationsOf(i)) = 3
        /\ Failures(InvocationsOf(i)) = 2

\* C8: for a stage with retry enabled and max_retries = m >= 0, the handler
\* is never invoked more than m + 1 times; when every invocation fails, the
\* stage concludes exactly at invocation m + 1, and it concludes in error.
C8_RetryExhaustion ==
    \A i \in DOMAIN stage_inputs :
        (stages[i].retry_on_error /\ stages[i].max_retries >= 0) =>
           LET inv == InvocationsOf(i)
               m == stages[i].max_retries
               allFail == Failures(inv) = Len(inv)
           IN  /\ Len(inv) <= m + 1
               /\ (allFail /\ Concluded(i)) =>
                     Len(inv) = m + 1 /\ stage_results[i].status = "error"
               /\ (allFail /\ Len(inv) = m + 1) =>
                     Concluded(i) /\ stage_results[i].status = "error"

C8_Witness ==
    \E i \in DOMAIN stage_results :
        /\ stages[i].retry_on_error
        /\ stages[i].max_retries = 2
        /\ stage_results[i].status = "error"
        /\ Failures(InvocationsOf(i)) = 3

\* C9: for a stage registered with retry disabled, each run of the stage
\* invokes the handler exactly once whatever max_retries is: never twice, and
\* the stage concludes with that one invocation, in error iff it failed.
C9_NoRetryOneInvocation ==
    \A i \in DOMAIN stage_inputs :
        ~stages[i].retry_on_error =>
           LET inv == InvocationsOf(i)
           IN  /\ Len(inv) <= 1
               /\ Concluded(i) <=> Len(inv) = 1
               /\ Concluded(i) =>
                     (stage_results[i].status = "error" <=> ~inv[1].ok)

C9_Witness ==
    \E i \in DOMAIN stage_results :
        /\ ~stages[i].retry_on_error
        /\ stages[i].max_retries = 2
        /\ stage_results[i].status = "error"
        /\ Len(InvocationsOf(i)) = 1

\* the stage_execute events of the audit log, in order
StageEvents == SelectSeq(entries, LAMBDA e : e.action = "stage_execute")

\* the positions of the concluded stages whose handler was invoked, in order
InvokedStages ==
    SelectSeq([i \in 1..Len(stage_results) |-> i],
              LAMBDA i : InvocationsOf(i) # <<>>)

C11_RetriesKeepInput ==
    \A k \in DOMAIN invocations :
        /\ invocations[k].stage \in DOMAIN stage_inputs
        /\ invocations[k].input = stage_inputs[invocations[k].stage]

C11_Witness ==
    \E i \in DOMAIN stage_results :
        /\ Len(InvocationsOf(i)) = 3
        /\ stage_inputs[i] # <<>>
        /\ \A j \in 1..3 : InvocationsOf(i)[j].input = stage_inputs[i]

\* C12: add_stage rejects max_retries < 0, so that no registered stage and no
\* executed stage has a negative max_retries.
C12_NegativeRetriesRejected ==
    /\ \A i \in DOMAIN stages : stages[i].max_retries >= 0
    /\ \A i \in DOMAIN stage_results :
          ~(stages[i].max_retries < 0 /\ stages[i].retry_on_error
            /\ stage_results[i].error = "Unknown error")

\* C13: no handler failure escapes execute(): whatever the stages and
\* whichever invocations fail, the call is never left by an exception, and
\* each stage whose last handler invocation failed has, once concluded and
\* in the returned result, a StageResult with status error whose error
\* field is the message of that failure and which carries no output.
C13_HandlerFailuresCaptured ==
    /\ pc \in {"idle", "for", "while", "finish", "returned"}
    /\ \A k \in DOMAIN invocations :
          LET v == invocations[k]
              last == k = Len(invocations) \/ invocations[k + 1].stage # v.stage
          IN  (~v.ok /\ last /\ Concluded(v.stage)) =>
                  /\ stage_results[v.stage].status = "error"
                  /\ stage_results[v.stage].error = v.message
                  /\ stage_results[v.stage].output = NoneData
    /\ Returned =>
          /\ pipeline_result.stages = stage_results
          /\ pipeline_result.output = current_data

\* a returned call in which two stages ended in failure, the first after
\* three failed invocations raising ValueError and the second after one
\* raising PermissionError, each with its own message in its StageResult
C13_Witness ==
    /\ Returned
    /\ Len(pipeline_result.stages) = 2
    /\ Len(InvocationsOf(1)) = 3
    /\ Len(InvocationsOf(2)) = 1
    /\ pipeline_result.stages[1].status = "error"
    /\ pipeline_result.stages[1].error = HandlerMessage(3)
    /\ pipeline_result.stages[2].status = "error"
    /\ pipeline_result.stages[2].error = HandlerMessage(1)
    /\ HandlerException(stages[2].handler) = "PermissionError"

\* C14 as stated: a log call or the save call that raises leaves execute()
\* by that exception: the failure is never taken for a handler failure
\* (kept as the stage's last error), never recorded as the error of a
\* StageResult, and no handler is invoked again after it has returned.
C14_InfrastructureFailuresPropagate ==
    /\ last_error # AuditFailure
    /\ \A i \in DOMAIN stage_results : stage_results[i].error # AuditFailure
    /\ \A k \in DOMAIN invocations :
          invocations[k].ok =>
              ~\E m \in DOMAIN invocations :
                  m > k /\ invocations[m].stage = invocations[k].stage

\* C15: in every execute() call that returns, the result sink is invoked
\* exactly once, with the complete result: no save happens while stages are
\* still being executed, and the one saved document is the returned result,
\* assembled from all the stage results of the run with its status and
\* metadata, and is what the artifact holds when execute() returns.
C15_SavedOnceWhenComplete ==
    /\ ~Returned => saves = <<>>
    /\ Returned =>
          /\ Len(saves) = 1
          /\ saves[1] = pipeline_result
          /\ saves[1] = PipelineResult(stage_results, stages, current_data)
          /\ Len(saves[1].stages) = Len(stage_inputs)
          /\ saves[1].status = PipelineStatus(stage_results, stages)
          /\ saves[1].metadata = Metadata(stage_results, stages)
          /\ artifact = <<pipeline_result>>

\* a returned run of two stages, the first failing as optional, whose one
\* saved document has both stage results and status partial
C15_Witness ==
    /\ Returned
    /\ Len(saves) = 1
    /\ Len(saves[1].stages) = 2
    /\ saves[1].status = "partial"
    /\ saves[1].metadata.failed_stages = 1
    /\ artifact = <<saves[1]>>

\* C16 as stated: when two execute() calls on the same instance interleave,
\* each call's returned stage results hold exactly one entry per stage that
\* call attempted, in stage order, and its metadata counts are those of its
\* own stage results.
C16_ConcurrentCallsIndependent ==
    /\ Returned =>
          /\ Len(pipeline_result.stages) = Len(stage_inputs)
          /\ \A i \in DOMAIN pipeline_result.stages :
                pipeline_result.stages[i].stage_name = stages[i].name
          /\ pipeline_result.metadata.successful_stages
               + pipeline_result.metadata.failed_stages = Len(stage_inputs)
    /\ other.pc = "returned" =>
          /\ Len(other.result.stages) = other.attempted
          /\ \A i \in DOMAIN other.result.stages :
                other.result.stages[i].stage_name = stages[i].name
          /\ other.result.metadata.successful_stages
               + other.result.metadata.failed_stages = other.attempted

C18_SuccessiveCallsIndependent ==
    /\ [](/\ Len(returned) <= MaxCalls
          /\ Len(saves) = Len(returned)
          /\ returned # <<>> => artifact = <<returned[Len(returned)]>>
          /\ Returned =>
                LET last == returned[Len(returned)]
                IN  /\ last = pipeline_result
                    /\ Len(last.stages) = Len(stage_inputs)
                    /\ \A i \in DOMAIN last.stages :
                          LET inv == InvocationsOf(i)
                          IN  /\ last.stages[i].stage_name = stages[i].name
                              /\ inv # <<>> =>
                                   (last.stages[i].status = "ok"
                                      <=> inv[Len(inv)].ok))
    /\ [][\A k \in DOMAIN returned :
             k \in DOMAIN returned' /\ returned'[k] = returned[k]]_vars

\* two calls have returned, the first with status error after its first
\* stage, the second with status ok after both stages; two saves were made
\* and the artifact is the second result
C18_Witness ==
    /\ Returned
    /\ Len(returned) = 2
    /\ returned[1].status = "error"
    /\ Len(returned[1].stages) = 1
    /\ returned[2].status = "ok"
    /\ Len(returned[2].stages) = 2
    /\ saves = returned
    /\ artifact = <<returned[2]>>

\* C19 as stated: with an audit logger configured, every executed stage has
\* exactly one stage_execute event, emitted when the stage concludes: at any
\* moment the stage_execute events are one per concluded stage, in stage
\* order and for that stage's name, with the concluded stage's status, and
\* none exists for a stage whose attempts are still being retried.
C19_OneEventPerExecutedStage ==
    audit_logger =>
        /\ Len(StageEvents) = Len(stage_results)
        /\ \A i \in DOMAIN StageEvents :
              /\ i \in DOMAIN stage_results
              /\ StageEvents[i].object_id = stage_results[i].stage_name
              /\ StageEvents[i].result = stage_results[i].status

\* C20: when an audit logger is configured and all N registered stages
\* succeed, one execute() call emits exactly N + 2 audit events: first one
\* pipeline_start, then one stage_execute with result ok per stage, in stage
\* order, and last one pipeline_complete with result ok.
C20_AuditCardinality ==
    (/\ Returned
     /\ audit_logger
     /\ Len(pipeline_result.stages) = Len(stages)
     /\ \A i \in DOMAIN pipeline_result.stages :
           pipeline_result.stages[i].status = "ok")
    => /\ Len(entries) = Len(stages) + 2
       /\ entries[1].action = "pipeline_start"
       /\ entries[Len(entries)].action = "pipeline_complete"
       /\ entries[Len(entries)].result = "ok"
       /\ \A i \in DOMAIN stages :
             /\ entries[i + 1].action = "stage_execute"
             /\ entries[i + 1].object_id = stages[i].name
             /\ entries[i + 1].result = "ok"

\* a returned run with an audit logger whose two stages both succeeded, the
\* second on its third attempt, and four audit events
C20_Witness ==
    /\ Returned
    /\ audit_logger
    /\ Len(stages) = 2
    /\ pipeline_result.status = "ok"
    /\ Len(pipeline_result.stages) = 2
    /\ Len(InvocationsOf(2)) = 3
    /\ Len(entries) = 4

\* the statuses of a result's stage entries, in order
StageStatuses(result) ==
    [i \in DOMAIN result.stages |-> result.stages[i].status]

\* the twin has returned from the run that met the first run's outcomes
TwinReturned == pc = "returned" /\ twin.pc = "returned"

\* C21: an instance without audit logger makes no audit call and its
\* execute() raises nothing; and of two instances with the same stages,
\* mode, initial data and handler outcomes, one with and one without audit
\* logger, both runs consume the same outcomes and return the same status,
\* the same output and the same stage-result statuses.
C21_NoAuditSameResult ==
    /\ ~audit_logger => (entries = <<>> /\ pc # "raised")
    /\ ~twin.audit_logger => (twin.entries = <<>> /\ twin.pc # "raised")
    /\ (/\ TwinReturned
        /\ twin.audit_logger # audit_logger
        /\ twin.mode = Mode
        /\ InitialData = {twin.initial_data})
       => /\ twin.used = Len(invocations)
          /\ twin.result.status = pipeline_result.status
          /\ twin.result.output = pipeline_result.output
          /\ StageStatuses(twin.result) = StageStatuses(pipeline_result)

\* a run without audit logger and its twin with one have both returned
\* partial after an optional failure and a success; only the twin has events
C21_Witness ==
    /\ TwinReturned
    /\ ~audit_logger
    /\ twin.audit_logger
    /\ twin.mode = Mode
    /\ entries = <<>>
    /\ Len(twin.entries) = 4
    /\ pipeline_result.status = "partial"
    /\ StageStatuses(twin.result) = <<"error", "ok">>

\* C22: execute() is deterministic: a run that meets the same stage list,
\* the same initial data and the same sequence of handler outcomes as
\* another run, on whatever instance and whatever that instance ran
\* before, consumes exactly those outcomes and returns a result with the
\* same status, output, stage entries (names, statuses, outputs, errors,
\* in order) and metadata counts.
C22_Deterministic ==
    (TwinReturned /\ InitialData = {twin.initial_data})
    => /\ twin.used = Len(invocations)
       /\ twin.result.status = pipeline_result.status
       /\ twin.result.output = pipeline_result.output
       /\ twin.result.stages = pipeline_result.stages
       /\ twin.result.metadata = pipeline_result.metadata
       /\ twin.result.pipeline = pipeline_result.pipeline

\* the first instance has run twice, and the twin, constructed like it, has
\* met the second run's outcomes (a retried failure, then a success) and
\* returned the second run's result
C22_Witness ==
    /\ TwinReturned
    /\ Len(returned) = 2
    /\ returned[1] # returned[2]
    /\ twin.audit_logger = audit_logger
    /\ twin.mode = Mode
    /\ twin.used = 3
    /\ Len(twin.result.stages) = 2
    /\ twin.result = returned[2]

\* the audit entries of the first instance's latest execute() call: those
\* from its last pipeline_start entry on
LatestRunEntries ==
    LET starts == {i \in DOMAIN entries : entries[i].action = "pipeline_start"}
    IN  IF starts = {} THEN <<>>
        ELSE LET first == CHOOSE i \in starts : \A j \in starts : j <= i
             IN  SubSeq(entries, first, Len(entries))

\* C25: the mode is passed through uninterpreted: a returned result carries
\* the mode its instance was constructed with, and two runs that differ
\* only in the mode return the same status, output and stage results and
\* emit the same sequence of audit events.
C25_ModePassThrough ==
    /\ Returned => pipeline_result.mode = Mode
    /\ twin.pc = "returned" => twin.result.mode = twin.mode
    /\ (/\ TwinReturned
        /\ twin.mode # Mode
        /\ twin.audit_logger = audit_logger
        /\ InitialData = {twin.initial_data})
       => /\ twin.result.status = pipeline_result.status
          /\ twin.result.output = pipeline_result.output
          /\ twin.result.stages = pipeline_result.stages
          /\ twin.entries = LatestRunEntries

\* a run in mode TEST and its twin in mode LIVE, both with audit logger,
\* have returned the same error result and emitted the same three events
C25_Witness ==
    /\ TwinReturned
    /\ twin.mode = "LIVE"
    /\ pipeline_result.mode = "TEST"
    /\ twin.result.mode = "LIVE"
    /\ audit_logger
    /\ twin.audit_logger
    /\ twin.result.status = "error"
    /\ Len(twin.result.stages) = 2
    /\ Len(twin.entries) = 4
    /\ twin.entries = entries

\* the last handler invocation made for the stage at position i failed
LastInvocationFailed(i) ==
    LET inv == InvocationsOf(i)
    IN  inv # <<>> /\ ~inv[Len(inv)].ok

\* C23: when an optional stage has ended in error and a later required
\* stage ends in error too, the returned status is error, not partial, and
\* the stage results still hold the optional stage's entry, at its
\* position, with status error and the message of its failure.
C23_ErrorOverPartial ==
    Returned =>
        \A i \in DOMAIN stages, j \in DOMAIN stages :
            (/\ i < j
             /\ ~stages[i].required /\ LastInvocationFailed(i)
             /\ stages[j].required /\ LastInvocationFailed(j))
            => /\ pipeline_result.status = "error"
               /\ Len(pipeline_result.stages) = j
               /\ pipeline_result.stages[i].stage_name = stages[i].name
               /\ pipeline_result.stages[i].status = "error"
               /\ pipeline_result.stages[i].error =
                     InvocationsOf(i)[Len(InvocationsOf(i))].message
               /\ pipeline_result.stages[j].status = "error"
               /\ pipeline_result.metadata.failed_stages >= 2

\* a returned run whose optional first stage failed after three attempts
\* and whose required second stage failed at once
C23_Witness ==
    /\ Returned
    /\ Len(stages) = 2
    /\ ~stages[1].required
    /\ stages[2].required
    /\ Len(InvocationsOf(1)) = 3
    /\ LastInvocationFailed(1)
    /\ LastInvocationFailed(2)
    /\ pipeline_result.status = "error"
    /\ pipeline_result.stages[1].error = HandlerMessage(3)

\* C24: in every StageResult produced by execute(), in the instance's list
\* and in the returned document, an error message is present exactly when
\* the status is error; with status ok the output is the value the
\* handler's last invocation returned, with status error the output is None.
C24_ErrorIffStatusError ==
    /\ \A i \in DOMAIN stage_results :
          LET r == stage_results[i]
              inv == InvocationsOf(i)
          IN  /\ r.status \in {"ok", "error"}
              /\ r.error # NoneStr <=> r.status = "error"
              /\ r.status = "ok" =>
                    /\ inv # <<>>
                    /\ inv[Len(inv)].ok
                    /\ r.output = inv[Len(inv)].value
                    /\ r.output # NoneData
              /\ r.status = "error" => r.output = NoneData
    /\ Returned => pipeline_result.stages = stage_results

\* a returned run with one entry of each kind: an error with its message
\* and no output, then an ok entry with the handler's value and no message
C24_Witness ==
    /\ Returned
    /\ Len(pipeline_result.stages) = 2
    /\ pipeline_result.stages[1].status = "error"
    /\ pipeline_result.stages[1].error = HandlerMessage(1)
    /\ pipeline_result.stages[1].output = NoneData
    /\ pipeline_result.stages[2].status = "ok"
    /\ pipeline_result.stages[2].error = NoneStr
    /\ pipeline_result.stages[2].output = HandlerOutput(2, <<>>)

\* some handler invocation of the current call has not returned
HandlerHangs ==
    \E k \in DOMAIN invocations : invocations[k].message = NoReturn

\* C26: there is no timeout and no cancellation: once a handler invocation
\* does not return, execute() stays in that call for ever: it never
\* returns, and from then on no handler is invoked, no stage result is
\* recorded, save is not called and neither pipeline_complete nor any other
\* audit event is emitted.
C26_HangBlocksForEver ==
    /\ [](HandlerHangs =>
            /\ pc = "hung"
            /\ saves = <<>>
            /\ \A e \in DOMAIN entries :
                  entries[e].action # "pipeline_complete")
    /\ [][HandlerHangs =>
            /\ pc' = "hung"
            /\ invocations' = invocations
            /\ stage_results' = stage_results
            /\ saves' = saves
            /\ artifact' = artifact
            /\ entries' = entries
            /\ returned' = returned]_vars

\* the second stage's handler hangs on its second attempt, after the first
\* stage has concluded and been logged
C26_Witness ==
    /\ HandlerHangs
    /\ pc = "hung"
    /\ audit_logger
    /\ idx = 2
    /\ attempts = 2
    /\ Len(stage_results) = 1
    /\ Len(entries) = 2
    /\ saves = <<>>

\* C27: add_stage appends exactly one stage at the end of self.stages,
\* carrying the given name, the handler of that call and the required flag
\* and retry policy given, or required = True, retry_on_error = False and
\* max_retries = 3 where the call leaves them out; the stages registered
\* before keep their content and order, nothing else of the instance
\* changes, and a name already used by a registered stage is accepted.
C27_AddStageAppends ==
    /\ [](/\ Len(stages) = Len(add_stage_calls)
          /\ \A i \in DOMAIN stages :
                LET call == add_stage_calls[i]
                IN  stages[i] =
                      [name |-> call.name,
                       handler |-> i,
                       required |->
                          IF "required" \in DOMAIN call
                          THEN call.required ELSE TRUE,
                       retry_on_error |->
                          IF "retry_on_error" \in DOMAIN call
                          THEN call.retry_on_error ELSE FALSE,
                       max_retries |->
                          IF "max_retries" \in DOMAIN call
                          THEN call.max_retries ELSE 3])
    /\ [][add_stage_calls' # add_stage_calls =>
            /\ Len(add_stage_calls') = Len(add_stage_calls) + 1
            /\ Len(stages') = Len(stages) + 1
            /\ SubSeq(stages', 1, Len(stages)) = stages
            /\ UNCHANGED <<stage_results, audit_logger, entries, artifact,
                           pc, pipeline_result, saves>>]_vars
    /\ [][add_stage_calls' = add_stage_calls => stages' = stages]_vars

\* two stages registered under the same name: the first with
\* required=False and max_retries=1 given, the second with the name only
C27_Witness ==
    /\ Len(stages) = 2
    /\ add_stage_calls[1] =
          [name |-> "a", required |-> FALSE, max_retries |-> 1]
    /\ add_stage_calls[2] = [name |-> "a"]
    /\ stages[1] = PipelineStage("a", 1, FALSE, FALSE, 1)
    /\ stages[2] = PipelineStage("a", 2, TRUE, FALSE, 3)

\* C28: stages execute in registration order, one at a time: the i-th
\* stage result belongs to the i-th registered stage (its name, and for an
\* ok entry the value of that stage's handler on that stage's input), the
\* handler invocations follow the stage order, and whenever an invocation
\* of a stage has been made every earlier stage has concluded, so at most
\* one stage is under way.
C28_RegistrationOrder ==
    /\ Len(stage_results) <= Len(stages)
    /\ \A i \in DOMAIN stage_results :
          /\ stage_results[i].stage_name = stages[i].name
          /\ i \in DOMAIN stage_inputs
          /\ stage_results[i].status = "ok" =>
                stage_results[i].output =
                    HandlerOutput(stages[i].handler, stage_inputs[i])
    /\ \A k \in DOMAIN invocations :
          /\ invocations[k].stage \in DOMAIN stages
          /\ invocations[k].stage <= Len(stage_results) + 1
          /\ \A i \in 1..(invocations[k].stage - 1) : Concluded(i)
          /\ \A m \in DOMAIN invocations :
                k < m => invocations[k].stage <= invocations[m].stage

\* the second stage is being retried after the first, differently named,
\* stage concluded on its second attempt
C28_Witness ==
    /\ pc = "while"
    /\ Len(stages) = 2
    /\ stages[1].name # stages[2].name
    /\ Len(stage_results) = 1
    /\ stage_results[1].status = "ok"
    /\ Len(InvocationsOf(1)) = 2
    /\ Len(InvocationsOf(2)) = 2
    /\ Len(returned) = 1

\* some pipeline_complete event has been emitted
CompleteLogged ==
    \E e \in DOMAIN entries : entries[e].action = "pipeline_complete"

\* C29: with an audit logger, the events of one execute() call are ordered:
\* pipeline_start is logged before any handler invocation; a stage_execute
\* event is logged in the step that concludes its stage, so after that
\* stage's last invocation and before any invocation of the next stage,
\* which only stages not yet concluded receive; the save comes after every
\* stage_execute event and every invocation; pipeline_complete is logged
\* only after the save and is the last event, followed only by the return.
C29_EventOrder ==
    /\ [](audit_logger =>
            /\ invocations # <<>> =>
                  (entries # <<>> /\ entries[1].action = "pipeline_start")
            /\ Len(StageEvents) <= Len(stage_results)
            /\ CompleteLogged =>
                  /\ entries[Len(entries)].action = "pipeline_complete"
                  /\ saves # <<>>
                  /\ artifact = <<saves[Len(saves)]>>
                  /\ Returned
            /\ Returned => CompleteLogged)
    /\ [][audit_logger =>
            /\ Len(invocations') > Len(invocations) =>
                  /\ invocations'[Len(invocations')].stage
                        = Len(stage_results) + 1
                  /\ saves = <<>>
                  /\ ~CompleteLogged
            /\ StageEvents' # StageEvents =>
                  /\ Len(StageEvents') = Len(StageEvents) + 1
                  /\ Len(invocations') = Len(invocations) + 1
                  /\ Len(stage_results') = Len(stage_results) + 1
                  /\ StageEvents'[Len(StageEvents')].object_id
                        = stage_results'[Len(stage_results')].stage_name
                  /\ invocations'[Len(invocations')].stage
                        = Len(stage_results')
                  /\ saves = <<>>
            /\ saves' # saves =>
                  /\ pc = "finish"
                  /\ StageEvents' = StageEvents
                  /\ ~CompleteLogged
            /\ (pc = "finish" /\ pc' # "finish") =>
                  Len(saves') = Len(saves) + 1
            /\ CompleteLogged => entries' = entries]_vars

\* a returned run with audit logger: start, two stage events (the first
\* for a stage that failed twice before it succeeded), save, complete
C29_Witness ==
    /\ Returned
    /\ audit_logger
    /\ Len(entries) = 4
    /\ entries[1].action = "pipeline_start"
    /\ entries[2].action = "stage_execute"
    /\ entries[3].action = "stage_execute"
    /\ entries[4].action = "pipeline_complete"
    /\ Len(InvocationsOf(1)) = 3
    /\ Len(saves) = 1

\* C30: in every PipelineResult, metadata.successful_stages is the number
\* of stage results with status ok, metadata.failed_stages the number with
\* status error, their sum is the number of stage results, and
\* metadata.total_stages is the number of registered stages, which exceeds
\* the number of stage results exactly when a required failure cut the run.
C30_MetadataCounts ==
    \A k \in DOMAIN returned :
        LET result == returned[k]
            oks == {i \in DOMAIN result.stages :
                        result.stages[i].status = "ok"}
            errors == {i \in DOMAIN result.stages :
                        result.stages[i].status = "error"}
        IN  /\ result.metadata.successful_stages = Cardinality(oks)
            /\ result.metadata.failed_stages = Cardinality(errors)
            /\ result.metadata.successful_stages
                 + result.metadata.failed_stages = Len(result.stages)
            /\ result.metadata.total_stages = Len(stages)
            /\ result.metadata.total_stages >= Len(result.stages)
            /\ result.metadata.total_stages > Len(result.stages)
                 <=> (/\ result.stages # <<>>
                      /\ Len(result.stages) < Len(stages)
                      /\ result.stages[Len(result.stages)].status = "error"
                      /\ stages[Len(result.stages)].required)

\* a returned result of a two-stage pipeline cut after its required first
\* stage failed: one failed stage, none successful, total_stages 2
C30_Witness ==
    /\ Returned
    /\ Len(stages) = 2
    /\ Len(pipeline_result.stages) = 1
    /\ pipeline_result.metadata =
          [total_stages |-> 2, successful_stages |-> 0, failed_stages |-> 1]

\* C31: the output of a returned result is the output of the last executed
\* stage that ended ok, or the initial data when no executed stage ended
\* ok, also when a required failure cut the run short.
C31_OutputOfLastOk ==
    Returned =>
        LET result == pipeline_result
            oks == {i \in DOMAIN result.stages :
                        result.stages[i].status = "ok"}
        IN  IF oks = {}
            THEN /\ result.output \in InitialData
                 /\ stage_inputs # <<>> => result.output = stage_inputs[1]
            ELSE LET last == CHOOSE i \in oks : \A j \in oks : j <= i
                 IN  /\ result.output = result.stages[last].output
                     /\ result.output =
                          HandlerOutput(stages[last].handler,
                                        stage_inputs[last])

\* a run cut by the required failure of its second stage returns the
\* output of its first stage, which ended ok
C31_Witness ==
    /\ Returned
    /\ pipeline_result.status = "error"
    /\ Len(pipeline_result.stages) = 2
    /\ pipeline_result.stages[1].status = "ok"
    /\ pipeline_result.stages[2].status = "error"
    /\ pipeline_result.output = HandlerOutput(1, <<>>)

\* the number of handler invocations C32 allows for a stage list: the sum
\* over the stages of max_retries + 1 if retry is enabled, else 1
RECURSIVE InvocationBound(_)
InvocationBound(stgs) ==
    IF stgs = <<>> THEN 0
    ELSE (IF Head(stgs).retry_on_error THEN Head(stgs).max_retries + 1
          ELSE 1) + InvocationBound(Tail(stgs))

\* C32 as stated, its bound: when execute() has returned, it has made at
\* most as many handler invocations as the sum over the registered stages
\* of max_retries + 1 if retry is enabled, else 1.
C32_InvocationBound ==
    Returned => Len(invocations) <= InvocationBound(stages)

\* C33: the status skipped is never produced: every StageResult, on the
\* instance and in every returned result, has status ok or error, and a
\* result cut by a required failure ends with that stage's entry: the
\* stages after it have no entry at all.
C33_NeverSkipped ==
    /\ \A i \in DOMAIN stage_results :
          stage_results[i].status \in {"ok", "error"}
    /\ \A k \in DOMAIN returned :
          LET entries_k == returned[k].stages
          IN  /\ \A i \in DOMAIN entries_k :
                    entries_k[i].status \in {"ok", "error"}
              /\ Len(entries_k) <= Len(stages)
              /\ \A i \in DOMAIN entries_k :
                    (entries_k[i].status = "error" /\ stages[i].required)
                        => Len(entries_k) = i

\* a returned result of a two-stage pipeline whose required first stage
\* failed: one entry, status error, nothing for the second stage
C33_Witness ==
    /\ Returned
    /\ Len(stages) = 2
    /\ stages[1].required
    /\ Len(pipeline_result.stages) = 1
    /\ pipeline_result.stages[1].status = "error"
    /\ Len(stage_inputs) = 1

\* C34: stages that share a name are told apart by position. After a run,
\* the result at position i stopped the loop exactly when the stage
\* registered at position i is required and the result is an error, the
\* overall status is error exactly when such a position exists, and
\* get_stage_result(name) is the result at the lowest position whose stage
\* has that name (None when no executed stage has it).
C34_DuplicatesPositional ==
    Returned =>
        LET result == pipeline_result
            n == Len(result.stages)
        IN  /\ \A i \in 1..n : result.stages[i].stage_name = stages[i].name
            /\ \A i \in 1..n :
                  (result.stages[i].status = "error" /\ stages[i].required)
                      <=> (i = n /\ result.status = "error")
            /\ \A i \in 1..n :
                  ~(result.stages[i].status = "error" /\ stages[i].required)
                      => (i < n \/ n = Len(stages))
            /\ \A name \in StageNames :
                  LET same == {i \in 1..n : stages[i].name = name}
                  IN  IF same = {}
                      THEN get_stage_result(stage_results, name) = <<>>
                      ELSE get_stage_result(stage_results, name) =
                             <<result.stages[
                                 CHOOSE i \in same : \A j \in same : i <= j]>>

\* two stages of the same name, the first optional and failed, the second
\* required and ok: the run went on, ended partial, and the lookup by name
\* gives the first stage's result
C34_Witness ==
    /\ Returned
    /\ Len(stages) = 2
    /\ stages[1].name = stages[2].name
    /\ ~stages[1].required
    /\ stages[2].required
    /\ Len(pipeline_result.stages) = 2
    /\ pipeline_result.stages[1].status = "error"
    /\ pipeline_result.stages[2].status = "ok"
    /\ pipeline_result.status = "partial"
    /\ get_stage_result(stage_results, stages[2].name) =
           <<pipeline_result.stages[1]>>

\* the stage_execute entries of the latest execute() call
LatestStageEvents ==
    SelectSeq(LatestRunEntries, LAMBDA e : e.action = "stage_execute")

\* C35: every stage_execute event of a run has the pipeline's name as
\* actor, the name of its stage as object id, the status of the stage's
\* StageResult as result and the number of handler invocations made for the
\* stage as attempts; an event of a final failure carries as error the
\* message of the last failed invocation, the same text as StageResult.error
\* and not the message of an earlier attempt, and an event of a success
\* carries no error.
C35_StageEventFields ==
    audit_logger =>
        /\ Len(LatestStageEvents) = Len(InvokedStages)
        /\ \A k \in DOMAIN LatestStageEvents :
              LET e == LatestStageEvents[k]
                  i == InvokedStages[k]
                  inv == InvocationsOf(i)
              IN  /\ e.actor = PipelineName
                  /\ e.object_type = "stage"
                  /\ e.object_id = stages[i].name
                  /\ e.result = stage_results[i].status
                  /\ e.details.attempts = Len(inv)
                  /\ e.result = "ok" => "error" \notin DOMAIN e.details
                  /\ e.result = "error" =>
                        /\ ~inv[Len(inv)].ok
                        /\ e.details.error = inv[Len(inv)].message
                        /\ e.details.error = stage_results[i].error
                        /\ \A j \in 1..(Len(inv) - 1) :
                              inv[j].message # e.details.error

\* a stage that failed three times: its event reports three attempts and
\* the message of the third failure
C35_Witness ==
    /\ audit_logger
    /\ Len(LatestStageEvents) >= 1
    /\ LatestStageEvents[1].result = "error"
    /\ LatestStageEvents[1].details.attempts = 3
    /\ LatestStageEvents[1].details.error = HandlerMessage(3)
    /\ Len(InvocationsOf(1)) = 3
    /\ stage_results[1].error = HandlerMessage(3)

\* the stage list that the add_stage calls made so far have registered
Registered ==
    [i \in DOMAIN add_stage_calls |->
        PipelineStage(add_stage_calls[i].name, i,
                      add_stage_calls[i].required,
                      add_stage_calls[i].retry_on_error,
                      add_stage_calls[i].max_retries)]

\* C36: execute() leaves the registered stage list alone: no step of an
\* execute() call, from its first statement to its return and in a first or
\* a repeated call, changes stages, so that after every call the list is
\* the one registration built (names, handlers, required flags, retry
\* policies, order), whatever the handlers did.
C36_ExecuteKeepsStages ==
    /\ [](Returned => stages = Registered)
    /\ [][pc' # "idle" => stages' = stages]_vars

\* a second call has returned, of a pipeline whose optional first stage
\* failed after a retry, and the two stages are still registered
C36_Witness ==
    /\ Returned
    /\ Len(returned) = 2
    /\ Len(stages) = 2
    /\ stages = Registered
    /\ ~stages[1].required
    /\ stages[1].retry_on_error
    /\ pipeline_result.status = "partial"
    /\ Len(InvocationsOf(1)) >= 2

\* C37 as stated: after execute() has returned, get_stage_results() is the
\* list of stage results of that call, and get_stage_result(name) is None
\* for the name of a registered stage that the call did not attempt.
C37_GettersOfLatestCall ==
    Returned =>
        /\ get_stage_results(stage_results) = pipeline_result.stages
        /\ pipeline_result = returned[Len(returned)]
        /\ \A i \in DOMAIN stages :
              i > Len(pipeline_result.stages) =>
                  get_stage_result(stage_results, stages[i].name) = <<>>

\* C37 amended: get_stage_results() is the list of stage results of the
\* latest call, and get_stage_result(name) is None exactly when no stage
\* attempted in that call has the name; when a stage that was not attempted
\* shares its name with an attempted one, the lookup returns the attempted
\* stage's result.
C37_GettersByName ==
    Returned =>
        /\ Len(get_stage_results(stage_results)) <= Len(stages)
        /\ \A i \in DOMAIN get_stage_results(stage_results) :
              get_stage_results(stage_results)[i].stage_name = stages[i].name
        /\ get_stage_results(stage_results) = pipeline_result.stages
        /\ pipeline_result = returned[Len(returned)]
        /\ \A name \in StageNames :
              get_stage_result(stage_results, name) = <<>>
                  <=> \A i \in DOMAIN pipeline_result.stages :
                         stages[i].name # name
        /\ \A i \in DOMAIN stages :
              (/\ i > Len(pipeline_result.stages)
               /\ get_stage_result(stage_results, stages[i].name) # <<>>)
                  => \E j \in DOMAIN pipeline_result.stages :
                        /\ stages[j].name = stages[i].name
                        /\ get_stage_result(stage_results, stages[i].name)
                               = <<pipeline_result.stages[j]>>

\* a second call has returned after its required first stage failed; the
\* second stage, of another name, was not attempted and its lookup is None,
\* the lookup of the first is its error result
C37_Witness ==
    /\ Returned
    /\ Len(returned) = 2
    /\ Len(stages) = 2
    /\ stages[1].name # stages[2].name
    /\ Len(pipeline_result.stages) = 1
    /\ get_stage_results(stage_results) = returned[2].stages
    /\ get_stage_result(stage_results, stages[2].name) = <<>>
    /\ get_stage_result(stage_results, stages[1].name) =
           <<pipeline_result.stages[1]>>
    /\ pipeline_result.stages[1].status = "error"

\* the save of the result document has raised out of execute(): _save_result
\* was called and the artifact does not hold the document it was given
SaveFailed ==
    /\ pc = "raised"
    /\ saves # <<>>
    /\ artifact # <<saves[Len(saves)]>>

\* C38 as stated: when the save call fails, the run has no pipeline_complete
\* event and execute() returns no result, while the log already holds
\* pipeline_start as its first entry and one stage_execute event for every
\* executed stage, in stage order.
C38_SaveFailureAfterStageEvents ==
    SaveFailed =>
        /\ ~CompleteLogged
        /\ returned = <<>>
        /\ ~audit_logger => entries = <<>>
        /\ audit_logger =>
              /\ entries # <<>>
              /\ entries[1].action = "pipeline_start"
              /\ Len(StageEvents) = Len(stage_results)
              /\ \A i \in DOMAIN stage_results :
                    /\ i \in DOMAIN StageEvents
                    /\ StageEvents[i].object_id = stage_results[i].stage_name
                    /\ StageEvents[i].result = stage_results[i].status
              /\ Len(entries) = 1 + Len(StageEvents)

====
